---- MODULE Spec2Model ----
(***************************************************************************)
(* Model of the Telegram -> OpenAI Vision relay.                           *)
(*                                                                         *)
(* Two builds of the program exist in the repository:                      *)
(*   variant = "pdf"   : src/main.go (photo flow and PDF flow, the PDF's   *)
(*                       first page is rasterized with go-fitz)            *)
(*   variant = "image" : src/unnamed/part_000 (photo flow only, JSON       *)
(*                       prompt, /test-image endpoint)                     *)
(* One behaviour is the start-up of the process followed by the handling   *)
(* of one inbound webhook request, one step per blocking call of           *)
(* handleWebhook.  Strings are sequences of tokens so that concatenation   *)
(* (fmt.Sprintf) and containment can be computed.  Emoji of the source's   *)
(* literals are left out of the tokens.                                    *)
(***************************************************************************)
EXTENDS Integers, Sequences, FiniteSets, TLC

VARIABLES
    variant,           \* which build runs
    env,               \* the process environment read by main
    telegramBotToken,  \* global, main.go:112
    openAIAPIKey,      \* global, main.go:113
    port,              \* main's local port
    pc,                \* position of the process / of handleWebhook
    update,            \* handleWebhook's local update
    largestPhoto,      \* handleWebhook's local largestPhoto / latestPhoto
    fileURL,           \* handleWebhook's local imageURL / pdfURL
    pdfContent,        \* handleWebhook's local pdfContent
    imageData,         \* rasterized page (PNG bytes)
    extractedText,     \* handleWebhook's local extractedText / extractedData
    calls,             \* outbound HTTP calls issued so far, with their answers
    rendered,          \* page indexes handed to doc.Image so far
    request,           \* inbound webhook bodies received (at most one)
    response,          \* HTTP responses written to the webhook caller
    routes,            \* routes registered on the router by main
    upload,            \* multipart forms received by /test-image (at most one)
    chatIDStr,         \* handleTestImage's local chatIDStr
    uploadResponse,    \* HTTP responses written to the /test-image caller
    inv                \* locals of concurrently running handleWebhook invocations

\* The variables of the /test-image endpoint
testVars == <<upload, chatIDStr, uploadResponse>>

vars == <<variant, env, telegramBotToken, openAIAPIKey, port, pc, update,
          largestPhoto, fileURL, pdfContent, imageData, extractedText,
          calls, rendered, request, response, routes, testVars, inv>>

----------------------------------------------------------------------------
(* Bounds of the model *)

MaxPhotos == 2
MaxChoices == 2
MaxPages == 2

(* Sequences over S of length 0..n *)
SeqUpTo(S, n) == UNION {[1..k -> S] : k \in 0..n}

----------------------------------------------------------------------------
(* Inbound data *)

Variants == {"pdf", "image"}

FileIDs == {"", "f1", "f2"}
ChatIDs == {1001, 1002}

\* TelegramPhoto: the handle and one piece of size metadata
TelegramPhoto == [file_id : FileIDs, file_size : {10, 20}]

NoDocument == [present |-> FALSE, mime_type |-> "", file_id |-> ""]

\* TelegramDocument (nil or a descriptor)
TelegramDocument ==
    {NoDocument} \cup
    [present : {TRUE}, mime_type : {"application/pdf", "application/zip"},
     file_id : {"f1"}]

\* TelegramUpdate, reduced to the fields handleWebhook reads
TelegramUpdate ==
    [chat_id : ChatIDs, photo : SeqUpTo(TelegramPhoto, MaxPhotos),
     document : TelegramDocument]

ZeroUpdate == [chat_id |-> 0, photo |-> <<>>, document |-> NoDocument]

\* An inbound body: JSON text that is syntactically valid or not; when valid,
\* its fields either have the JSON types the TelegramUpdate struct declares
\* (typed) or some field has another type (e.g. "update_id":"x").
Bodies ==
    {[syntax |-> "invalid", typed |-> FALSE, message |-> ZeroUpdate],
     [syntax |-> "valid", typed |-> FALSE, message |-> ZeroUpdate]}
    \cup [syntax : {"valid"}, typed : {TRUE}, message : TelegramUpdate]

\* The process environment
Envs == [TELEGRAM_BOT_TOKEN : {"", "tok"}, OPENAI_API_KEY : {"", "key"},
         PORT : {"", "9000"}]

----------------------------------------------------------------------------
(* Function results: Go's (value, error) pairs; err = "nil" is a nil error *)

Ok(v) == [err |-> "nil", val |-> v]
Fail(e, zero) == [err |-> e, val |-> zero]

----------------------------------------------------------------------------
(* Answers of the external services.  transport = "error": the HTTP call   *)
(* itself failed; "readerror": io.ReadAll of the body failed.              *)

Contents == {<<"A", "B", "C">>, <<"x">>}

\* Telegram getFile
NoFileBody == [json |-> "invalid", ok |-> FALSE, file_path |-> ""]
GetFileAnswers ==
    {[transport |-> "error", status |-> 0, body |-> NoFileBody],
     [transport |-> "readerror", status |-> 200, body |-> NoFileBody],
     [transport |-> "ok", status |-> 200, body |-> NoFileBody],
     [transport |-> "ok", status |-> 404,
      body |-> [json |-> "valid", ok |-> FALSE, file_path |-> ""]],
     [transport |-> "ok", status |-> 200,
      body |-> [json |-> "valid", ok |-> TRUE, file_path |-> "photos/file_1.jpg"]],
     [transport |-> "ok", status |-> 200,
      body |-> [json |-> "valid", ok |-> TRUE, file_path |-> ""]]}

\* OpenAI chat completions: the body decodes into OpenAIResponse or not
NoChoiceBody == [json |-> "invalid", choices |-> <<>>]
OpenAIBodies ==
    {NoChoiceBody} \cup [json : {"valid"}, choices : SeqUpTo(Contents, MaxChoices)]
OpenAIAnswers ==
    {[transport |-> "error", status |-> 0, body |-> NoChoiceBody],
     [transport |-> "readerror", status |-> 200, body |-> NoChoiceBody]}
    \cup [transport : {"ok"}, status : {200, 500}, body : OpenAIBodies]

\* Telegram sendMessage / sendPhoto: only transport and status are read
SendAnswers ==
    {[transport |-> "error", status |-> 0],
     [transport |-> "ok", status |-> 200],
     [transport |-> "ok", status |-> 400]}

\* The raw file behind a resolved URL: a PDF go-fitz can open (valid) with a
\* number of pages, or bytes it cannot open
NoContent == [valid |-> FALSE, pages |-> 0]
PDFContents == {NoContent} \cup [valid : {TRUE}, pages : 0..MaxPages]
FileAnswers ==
    {[transport |-> "error", status |-> 0, body |-> NoContent],
     [transport |-> "readerror", status |-> 200, body |-> NoContent],
     [transport |-> "ok", status |-> 404, body |-> NoContent]}
    \cup [transport : {"ok"}, status : {200}, body : PDFContents]

\* What go-fitz and image/png do with page 0 of an opened document
RenderOutcomes == {"ok", "render_error", "encode_error"}

----------------------------------------------------------------------------
(* Pure functions of the program *)

\* Mutant: every document with a MIME type is taken for a PDF
isPDFAnyMime(mimeType) == mimeType # ""

\* main.go:572
isPDF(mimeType) == mimeType = "application/pdf"

\* main.go:265, the download URL pattern
FileURLOf(token, path) == <<"https://api.telegram.org/file/bot", token, "/", path>>

\* main.go:240 downloadImage, applied to the answer of the getFile call.
\* The HTTP status of the answer is not read.
downloadImage(token, fileID, resp) ==
    IF resp.transport = "error" THEN Fail("failed to get file info", <<>>)
    ELSE IF resp.transport = "readerror" THEN Fail("failed to read response", <<>>)
    ELSE IF resp.body.json = "invalid" THEN Fail("failed to parse file response", <<>>)
    ELSE IF ~resp.body.ok THEN Fail("telegram API error: file not found", <<>>)
    ELSE Ok(FileURLOf(token, resp.body.file_path))

\* Mutant: the success flag of the answer is not read
downloadDocumentIgnoresFlag(token, fileID, resp) ==
    IF resp.transport = "error" THEN Fail("failed to get file info", <<>>)
    ELSE IF resp.transport = "readerror" THEN Fail("failed to read response", <<>>)
    ELSE IF resp.body.json = "invalid" THEN Fail("failed to parse file response", <<>>)
    ELSE Ok(FileURLOf(token, resp.body.file_path))

\* main.go:577 downloadDocument
downloadDocument(token, fileID, resp) ==
    IF resp.transport = "error" THEN Fail("failed to get file info", <<>>)
    ELSE IF resp.transport = "readerror" THEN Fail("failed to read response", <<>>)
    ELSE IF resp.body.json = "invalid" THEN Fail("failed to parse file response", <<>>)
    ELSE IF ~resp.body.ok THEN Fail("telegram API error: file not found", <<>>)
    ELSE Ok(FileURLOf(token, resp.body.file_path))

\* main.go:608 downloadFileContent
downloadFileContent(resp) ==
    IF resp.transport = "error" THEN Fail("failed to download file", NoContent)
    ELSE IF resp.status # 200 THEN Fail("failed to download file: status", NoContent)
    ELSE IF resp.transport = "readerror" THEN Fail("failed to read file content", NoContent)
    ELSE Ok(resp.body)

\* The tail shared by every extractor, main.go:324-333: decode, take choice 0
FirstChoice(resp) ==
    IF resp.body.json = "invalid" THEN Fail("failed to parse OpenAI response", <<>>)
    ELSE IF Len(resp.body.choices) = 0 THEN Fail("no response from OpenAI", <<>>)
    ELSE Ok(resp.body.choices[1])

\* Does this build's extractTextFromImage test resp.StatusCode?
\* main.go:320 does; part_000:373-388 has no such test.
ChecksStatus(v) == v = "pdf"

\* extractTextFromImage (main.go:270, part_000:328), applied to the answer of
\* the completion call
extractTextFromImage(v, resp) ==
    IF resp.transport = "error" THEN Fail("failed to make request", <<>>)
    ELSE IF resp.transport = "readerror" THEN Fail("failed to read response", <<>>)
    ELSE IF ChecksStatus(v) /\ resp.status # 200 THEN Fail("OpenAI API error", <<>>)
    ELSE FirstChoice(resp)

\* extractTextFromImageBase64 (main.go:422)
extractTextFromImageBase64(resp) ==
    IF resp.transport = "error" THEN Fail("failed to make request", <<>>)
    ELSE IF resp.transport = "readerror" THEN Fail("failed to read response", <<>>)
    ELSE IF resp.status # 200 THEN Fail("OpenAI API error", <<>>)
    ELSE FirstChoice(resp)

\* sendTelegramMessage's returned error (main.go:502-512, part_000:465-471);
\* part_000 does not read the status
sendTelegramMessage(v, resp) ==
    IF resp.transport = "error" THEN "failed to send message"
    ELSE IF v = "pdf" /\ resp.status # 200 THEN "telegram API error"
    ELSE "nil"

\* sendImageToTelegram's returned error (main.go:557-568)
sendImageToTelegram(v, resp) ==
    IF resp.transport = "error" THEN "failed to send image"
    ELSE IF v = "pdf" /\ resp.status # 200 THEN "telegram API error"
    ELSE "nil"

----------------------------------------------------------------------------
(* Texts sent to the chat, by call site of sendTelegramMessage *)

ImageDownloadFailed == <<"Sorry, I couldn't download the image. Please try again.">>
ImageExtractFailed ==
    <<"Sorry, I couldn't extract any text from this image. Please try with a clearer image.">>
PDFDownloadFailed == <<"Sorry, I couldn't download the PDF. Please try again.">>
PDFContentFailed == <<"Sorry, I couldn't download the PDF content. Please try again.">>
PDFExtractFailed ==
    <<"Sorry, I couldn't extract any text from this PDF. Please try with a different document.">>

\* Mutant: the extracted text is cut to its first token
ImageReplyTruncated(v, text) ==
    IF v = "pdf"
    THEN <<"**Extracted text from image:**", "\n\n">> \o SubSeq(text, 1, 1)
    ELSE <<"**Extracted data from image:**", "\n\n", "~~~json", "\n">>
         \o SubSeq(text, 1, 1) \o <<"\n", "~~~">>

\* fmt.Sprintf of the image flow's reply: main.go:187, part_000:197
\* ("~~~" stands for the Markdown code fence of three backquotes)
ImageReply(v, text) ==
    IF v = "pdf"
    THEN <<"**Extracted text from image:**", "\n\n">> \o text
    ELSE <<"**Extracted data from image:**", "\n\n", "~~~json", "\n">> \o text
         \o <<"\n", "~~~">>

\* fmt.Sprintf of the PDF flow's reply: main.go:229
PDFReply(text) == <<"**Extracted text from PDF:**", "\n\n">> \o text

\* Mutant: the PDF flow has one failure text for every step
NotifyTextOnePDFFailure(site, v, text) ==
    CASE site = "image_download_failed" -> ImageDownloadFailed
      [] site = "image_extract_failed" -> ImageExtractFailed
      [] site = "image_reply" -> ImageReply(v, text)
      [] site \in {"pdf_download_failed", "pdf_content_failed", "pdf_extract_failed"}
           -> PDFExtractFailed
      [] site = "pdf_reply" -> PDFReply(text)

\* The text handed to sendTelegramMessage at each call site of handleWebhook
NotifyText(site, v, text) ==
    CASE site = "image_download_failed" -> ImageDownloadFailed
      [] site = "image_extract_failed" -> ImageExtractFailed
      [] site = "image_reply" -> ImageReply(v, text)
      [] site = "pdf_download_failed" -> PDFDownloadFailed
      [] site = "pdf_content_failed" -> PDFContentFailed
      [] site = "pdf_extract_failed" -> PDFExtractFailed
      [] site = "pdf_reply" -> PDFReply(text)

NotifySites ==
    {"image_download_failed", "image_extract_failed", "image_reply",
     "pdf_download_failed", "pdf_content_failed", "pdf_extract_failed", "pdf_reply"}

----------------------------------------------------------------------------
(* Rasterization: png.Encode of the rendered page, and its data URI *)

\* The PNG bytes of page pageNum: a signature byte and bytes that depend on
\* the page
PNGOf(pageNum) == <<137, 80 + pageNum>>

\* base64.StdEncoding.EncodeToString: sextets 0..63, 64 stands for '='
RECURSIVE Base64(_)
Base64(bytes) ==
    IF Len(bytes) = 0 THEN <<>>
    ELSE IF Len(bytes) = 1
    THEN <<bytes[1] \div 4, (bytes[1] % 4) * 16, 64, 64>>
    ELSE IF Len(bytes) = 2
    THEN <<bytes[1] \div 4, (bytes[1] % 4) * 16 + bytes[2] \div 16,
           (bytes[2] % 16) * 4, 64>>
    ELSE <<bytes[1] \div 4, (bytes[1] % 4) * 16 + bytes[2] \div 16,
           (bytes[2] % 16) * 4 + bytes[3] \div 64, bytes[3] % 64>>
         \o Base64(SubSeq(bytes, 4, Len(bytes)))

\* main.go:391
DataURI(bytes) == <<"data:image/png;base64,">> \o Base64(bytes)

\* Mutant: the last page is rendered
PageToRenderLast(content) == content.pages - 1

\* main.go:385: the page index handed to convertPDFPageToHighQualityImage
PageToRender(content) == 0

\* main.go:372-388 and 403-419: open the document, count the pages, render
\* page 0 and encode it.  outcome is what the libraries do with page 0.
RasterizeFirstPage(content, outcome) ==
    IF ~content.valid THEN Fail("failed to open PDF", <<>>)
    ELSE IF content.pages = 0 THEN Fail("PDF has no pages", <<>>)
    ELSE IF outcome = "render_error" THEN Fail("failed to render PDF page", <<>>)
    ELSE IF outcome = "encode_error" THEN Fail("failed to encode image", <<>>)
    ELSE Ok(PNGOf(PageToRender(content)))

\* Is doc.Image reached?  (main.go:385, after the two early returns)
ReachesRender(content) == content.valid /\ content.pages # 0

----------------------------------------------------------------------------
(* Outbound calls *)

Call(api, chat, arg, answer, ret) ==
    [api |-> api, chat_id |-> chat, arg |-> arg, answer |-> answer, ret |-> ret]

\* The completion request: model, instruction, image reference, bearer key
Prompt(v, form) ==
    IF v = "image" THEN "structured-json"
    ELSE IF form = "url" THEN "free-text" ELSE "free-text-summary"

OpenAIRequest(v, form, image, key) ==
    [model |-> "gpt-4o-mini", prompt |-> Prompt(v, form), image_url |-> image,
     bearer |-> key]

OKResponse == [code |-> 200, body |-> "status:ok"]
BadRequest == [code |-> 400, body |-> "error:Invalid JSON"]

----------------------------------------------------------------------------
(* Concurrent invocations of handleWebhook: each has its own locals *)

Invocations == {1, 2}

IdleInvocation ==
    [pc |-> "idle", update |-> ZeroUpdate, largestPhoto |-> [file_id |-> "", file_size |-> 0],
     fileURL |-> <<>>, pdfContent |-> NoContent, imageData |-> <<>>,
     extractedText |-> <<>>, calls |-> <<>>, response |-> <<>>]

----------------------------------------------------------------------------
(* Start-up *)

ZeroPhoto == [file_id |-> "", file_size |-> 0]

Init ==
    /\ variant \in Variants
    /\ env \in Envs
    /\ telegramBotToken = ""
    /\ openAIAPIKey = ""
    /\ port = ""
    /\ pc = "start"
    /\ update = ZeroUpdate
    /\ largestPhoto = ZeroPhoto
    /\ fileURL = <<>>
    /\ pdfContent = NoContent
    /\ imageData = <<>>
    /\ extractedText = <<>>
    /\ calls = <<>>
    /\ rendered = <<>>
    /\ request = <<>>
    /\ response = <<>>
    /\ routes = {}
    /\ upload = <<>>
    /\ chatIDStr = <<>>
    /\ uploadResponse = <<>>
    /\ inv = [i \in Invocations |-> IdleInvocation]

\* Mutant: the process exits only when both secrets are missing
MissingSecretBoth(e) == e.TELEGRAM_BOT_TOKEN = "" /\ e.OPENAI_API_KEY = ""

\* main.go:126
MissingSecret(e) == e.TELEGRAM_BOT_TOKEN = "" \/ e.OPENAI_API_KEY = ""

\* main.go:138-141
ListenPort(e) == IF e.PORT = "" THEN "8080" ELSE e.PORT

\* main.go:134-135, part_000:122-124
RoutesOf(v) ==
    IF v = "pdf" THEN {"GET /", "POST /webhook"}
    ELSE {"GET /", "POST /webhook", "POST /test-image"}

\* main.go:116-145: read the two secrets, exit when one is missing
\* (log.Fatal), else register the routes and listen
main ==
    /\ pc = "start"
    /\ telegramBotToken' = env.TELEGRAM_BOT_TOKEN
    /\ openAIAPIKey' = env.OPENAI_API_KEY
    /\ IF MissingSecret(env)
       THEN pc' = "fatal" /\ port' = port /\ routes' = routes
       ELSE /\ routes' = RoutesOf(variant)
            /\ port' = ListenPort(env)
            /\ pc' = "listening"
    /\ UNCHANGED <<testVars, inv, variant, env, update, largestPhoto, fileURL,
                   pdfContent, imageData, extractedText, calls, rendered,
                   request, response>>

----------------------------------------------------------------------------
(* handleWebhook *)

\* Mutant: the bind error of a syntactically invalid body is ignored
ShouldBindJSONIgnoreSyntax(v, body) ==
    IF body.syntax = "valid" /\ ~body.typed THEN Fail("cannot unmarshal", ZeroUpdate)
    ELSE Ok(IF v = "pdf" THEN body.message
            ELSE [body.message EXCEPT !.document = NoDocument])

\* Mutant: a field of the wrong JSON type is skipped instead of rejected
ShouldBindJSONIgnoreTypes(v, body) ==
    IF body.syntax = "invalid" THEN Fail("invalid character", ZeroUpdate)
    ELSE Ok(IF v = "pdf" THEN body.message
            ELSE [body.message EXCEPT !.document = NoDocument])

\* c.ShouldBindJSON(&update): encoding/json rejects text that is not JSON and
\* JSON whose values do not fit the struct's field types; part_000's
\* TelegramMessage has no Document field, so a document is dropped there.
ShouldBindJSON(v, body) ==
    IF body.syntax = "invalid" THEN Fail("invalid character", ZeroUpdate)
    ELSE IF ~body.typed THEN Fail("cannot unmarshal", ZeroUpdate)
    ELSE Ok(IF v = "pdf" THEN body.message
            ELSE [body.message EXCEPT !.document = NoDocument])

\* main.go:155-161
handleWebhook_Bind ==
    /\ pc = "listening"
    /\ "POST /webhook" \in routes
    /\ \E body \in Bodies :
         LET r == ShouldBindJSON(variant, body) IN
           /\ request' = Append(request, body)
           /\ IF r.err # "nil"
              THEN /\ response' = Append(response, BadRequest)
                   /\ pc' = "done"
                   /\ update' = update
              ELSE /\ update' = r.val
                   /\ pc' = "bound"
                   /\ response' = response
    /\ UNCHANGED <<routes, testVars, inv, variant, env, telegramBotToken, openAIAPIKey, port,
                   largestPhoto, fileURL, pdfContent, imageData, extractedText,
                   calls, rendered>>

\* Mutant: the variant with the largest file_size is selected
SelectPhotoBySize(photo) ==
    photo[CHOOSE i \in 1..Len(photo) :
            \A j \in 1..Len(photo) : photo[j].file_size <= photo[i].file_size]

\* main.go:166: the last element of the photo array
SelectPhoto(photo) == photo[Len(photo)]

\* Mutant: the handle of the selected photo is not tested
RejectsEmptyHandleNever(v, p) == FALSE

\* part_000:166-170: an empty handle ends the request (main.go has no such test)
RejectsEmptyHandle(v, p) == v = "image" /\ p.file_id = ""

\* main.go:194: the PDF branch (part_000 has none)
HasPDF(v, u) == v = "pdf" /\ u.document.present /\ isPDF(u.document.mime_type)

\* Mutant: the document test comes before the photo test
FlowOfDocumentFirst(v, u) ==
    IF HasPDF(v, u) THEN "document"
    ELSE IF Len(u.photo) > 0 THEN "image" ELSE "none"

\* main.go:164 and 194: the photo test comes first, the document test is
\* reached only when the photo list is empty
FlowOf(v, u) ==
    IF Len(u.photo) > 0 THEN "image"
    ELSE IF HasPDF(v, u) THEN "document" ELSE "none"

\* main.go:164-166, 194, 235-237: choose the flow
Dispatch ==
    /\ pc = "bound"
    /\ IF FlowOf(variant, update) = "image"
       THEN /\ largestPhoto' = SelectPhoto(update.photo)
            /\ IF RejectsEmptyHandle(variant, largestPhoto')
               THEN response' = Append(response, OKResponse) /\ pc' = "done"
               ELSE response' = response /\ pc' = "resolve_image"
       ELSE /\ largestPhoto' = largestPhoto
            /\ IF FlowOf(variant, update) = "document"
               THEN response' = response /\ pc' = "resolve_document"
               ELSE response' = Append(response, OKResponse) /\ pc' = "done"
    /\ UNCHANGED <<routes, testVars, inv, variant, env, telegramBotToken, openAIAPIKey, port, update,
                   fileURL, pdfContent, imageData, extractedText, calls,
                   rendered, request>>

\* Mutant: the error of downloadImage is not tested
AfterResolveImageUnchecked(r) == "extract_image"

\* Mutant: after a failed resolution the handler waits for ever
AfterResolveImageHangs(r) == IF r.err # "nil" THEN "hung" ELSE "extract_image"

\* Where handleWebhook goes after downloadImage returned (main.go:170)
AfterResolveImage(r) == IF r.err # "nil" THEN "image_download_failed" ELSE "extract_image"

\* main.go:169-175
ResolveImage ==
    /\ pc = "resolve_image"
    /\ \E a \in GetFileAnswers :
         LET r == downloadImage(telegramBotToken, largestPhoto.file_id, a) IN
           /\ calls' = Append(calls, Call("getFile", 0, largestPhoto.file_id, a, r.err))
           /\ fileURL' = r.val
           /\ pc' = AfterResolveImage(r)
    /\ UNCHANGED <<routes, testVars, inv, variant, env, telegramBotToken, openAIAPIKey, port, update,
                   largestPhoto, pdfContent, imageData, extractedText, rendered,
                   request, response>>

\* Mutant: a failed extraction is tried again
AfterExtractImageRetry(r) == IF r.err # "nil" THEN "extract_image" ELSE "image_reply"

\* Mutant: the failure text is chosen by the detail of the error
AfterExtractImageByDetail(r) ==
    IF r.err = "nil" THEN "image_reply"
    ELSE IF r.err = "failed to make request" THEN "image_download_failed"
    ELSE "image_extract_failed"

\* Mutant: the image flow also sends a picture before its reply
AfterExtractImageSendsPhoto(r) ==
    IF r.err # "nil" THEN "image_extract_failed" ELSE "send_image"

\* Mutant: the reply is sent whatever extractTextFromImage returned
AfterExtractImageAlwaysReplies(r) == "image_reply"

\* Where handleWebhook goes after extractTextFromImage returned (main.go:179)
AfterExtractImage(r) == IF r.err # "nil" THEN "image_extract_failed" ELSE "image_reply"

\* main.go:178-184
ExtractImage ==
    /\ pc = "extract_image"
    /\ \E a \in OpenAIAnswers :
         LET r == extractTextFromImage(variant, a) IN
           /\ calls' = Append(calls,
                  Call("completions", 0,
                       OpenAIRequest(variant, "url", fileURL, openAIAPIKey), a, r.err))
           /\ extractedText' = r.val
           /\ pc' = AfterExtractImage(r)
    /\ UNCHANGED <<routes, testVars, inv, variant, env, telegramBotToken, openAIAPIKey, port, update,
                   largestPhoto, fileURL, pdfContent, imageData, rendered,
                   request, response>>

\* main.go:196-202
ResolveDocument ==
    /\ pc = "resolve_document"
    /\ \E a \in GetFileAnswers :
         LET r == downloadDocument(telegramBotToken, update.document.file_id, a) IN
           /\ calls' = Append(calls,
                  Call("getFile", 0, update.document.file_id, a, r.err))
           /\ fileURL' = r.val
           /\ pc' = (IF r.err # "nil" THEN "pdf_download_failed" ELSE "download_content")
    /\ UNCHANGED <<routes, testVars, inv, variant, env, telegramBotToken, openAIAPIKey, port, update,
                   largestPhoto, pdfContent, imageData, extractedText, rendered,
                   request, response>>

\* main.go:205-211
DownloadContent ==
    /\ pc = "download_content"
    /\ \E a \in FileAnswers :
         LET r == downloadFileContent(a) IN
           /\ calls' = Append(calls, Call("download", 0, fileURL, a, r.err))
           /\ pdfContent' = r.val
           /\ pc' = (IF r.err # "nil" THEN "pdf_content_failed" ELSE "rasterize")
    /\ UNCHANGED <<routes, testVars, inv, variant, env, telegramBotToken, openAIAPIKey, port, update,
                   largestPhoto, fileURL, imageData, extractedText, rendered,
                   request, response>>

\* main.go:214 into 372-391: extractTextFromPDFToImagesWithImage up to the
\* data URI
Rasterize ==
    /\ pc = "rasterize"
    /\ \E o \in RenderOutcomes :
         LET r == RasterizeFirstPage(pdfContent, o) IN
           /\ rendered' = (IF ReachesRender(pdfContent) THEN Append(rendered, PageToRender(pdfContent))
                           ELSE rendered)
           /\ imageData' = r.val
           /\ pc' = (IF r.err # "nil" THEN "pdf_extract_failed" ELSE "extract_pdf")
    /\ UNCHANGED <<routes, testVars, inv, variant, env, telegramBotToken, openAIAPIKey, port, update,
                   largestPhoto, fileURL, pdfContent, extractedText, calls,
                   request, response>>

\* main.go:394-399 and 215-220: the completion call on the data URI
ExtractPDF ==
    /\ pc = "extract_pdf"
    /\ \E a \in OpenAIAnswers :
         LET r == extractTextFromImageBase64(a) IN
           /\ calls' = Append(calls,
                  Call("completions", 0,
                       OpenAIRequest(variant, "data", DataURI(imageData), openAIAPIKey),
                       a, r.err))
           /\ extractedText' = r.val
           /\ pc' = (IF r.err # "nil" THEN "pdf_extract_failed" ELSE "send_image")
    /\ UNCHANGED <<routes, testVars, inv, variant, env, telegramBotToken, openAIAPIKey, port, update,
                   largestPhoto, fileURL, pdfContent, imageData, rendered,
                   request, response>>

\* Mutant: a failed image send ends the flow with the failure text
AfterSendImageChecked(ret) == IF ret # "nil" THEN "pdf_extract_failed" ELSE "pdf_reply"

\* Where handleWebhook goes after sendImageToTelegram returned: its error is
\* only logged (main.go:223-226)
AfterSendImage(ret) == "pdf_reply"

\* main.go:223-226: the rasterized page is sent first
SendImage ==
    /\ pc = "send_image"
    /\ \E a \in SendAnswers :
         LET ret == sendImageToTelegram(variant, a) IN
           /\ calls' = Append(calls,
                  Call("sendPhoto", update.chat_id,
                       [photo |-> imageData, caption |-> "Converted PDF page to image"],
                       a, ret))
           /\ pc' = AfterSendImage(ret)
    /\ UNCHANGED <<routes, testVars, inv, variant, env, telegramBotToken, openAIAPIKey, port, update,
                   largestPhoto, fileURL, pdfContent, imageData, extractedText,
                   rendered, request, response>>

\* Mutant: the return after the failure notification is missing and the
\* handler falls through to the next step
AfterNotifyFallThrough(site) ==
    CASE site = "image_download_failed" -> "extract_image"
      [] site = "image_extract_failed" -> "image_reply"
      [] OTHER -> "done"

\* Every call site of sendTelegramMessage is followed by c.JSON and return
\* (main.go:174, 183, 190, 201, 210, 219, 232)
AfterNotify(site) == "done"

\* Mutant: a failed notification is turned into an error response
ResponseAfterNotifyPropagating(site, ret) ==
    IF ret # "nil" THEN [code |-> 500, body |-> "error"] ELSE OKResponse

\* Mutant: the error of sendTelegramMessage aborts the handler with a 500
ResponseAfterNotifyAborting(site, ret) ==
    IF ret = "nil" THEN OKResponse ELSE [code |-> 500, body |-> "error:notify"]

\* The response written after a sendTelegramMessage call, whatever it returned
\* (main.go:173, 182, 189, 200, 209, 218, 231)
ResponseAfterNotify(site, ret) == OKResponse

\* sendTelegramMessage at one of its call sites, then c.JSON(200, ...) and return
Notify ==
    /\ pc \in NotifySites
    /\ \E a \in SendAnswers :
         LET ret == sendTelegramMessage(variant, a) IN
           /\ calls' = Append(calls,
                  Call("sendMessage", update.chat_id,
                       NotifyText(pc, variant, extractedText), a, ret))
           /\ response' = Append(response, ResponseAfterNotify(pc, ret))
    /\ pc' = AfterNotify(pc)
    /\ UNCHANGED <<routes, testVars, inv, variant, env, telegramBotToken, openAIAPIKey, port, update,
                   largestPhoto, fileURL, pdfContent, imageData, extractedText,
                   rendered, request>>

----------------------------------------------------------------------------
(* handleTestImage, the /test-image endpoint of part_000 *)

\* The multipart form: the "image" part is present or not; its declared
\* Content-Type; whether file.Open and io.ReadAll succeed; its bytes
NoUpload ==
    [present |-> FALSE, content_type |-> "", filename |-> "", open |-> "ok",
     read |-> "ok", content |-> <<>>]
Uploads ==
    {NoUpload} \cup
    [present : {TRUE},
     content_type : {"image/jpeg", "image/jpg", "image/png", "image/gif"},
     filename : {"plate.png"}, open : {"ok", "error"}, read : {"ok", "error"},
     content : {<<255>>, <<1, 2, 3, 4>>}]

\* Values of TELEGRAM_CHAT_ID in the environment when the handler reads it
ChatIDStrs == {<<>>, <<"4", "2">>, <<"a", "b">>, <<"7", "x">>}

\* The JSON bodies handleTestImage writes
UploadError(code, msg) ==
    [code |-> code, error |-> msg, success |-> FALSE, extracted_data |-> <<>>,
     filename |-> "", size |-> 0, chat_id |-> 0]
UploadSuccess(text, name, size, chat) ==
    [code |-> 200, error |-> <<>>, success |-> TRUE, extracted_data |-> text,
     filename |-> name, size |-> size, chat_id |-> chat]

\* Mutant: every image/* type is accepted
SupportedTypeAnyImage(contentType) ==
    contentType \in {"image/jpeg", "image/jpg", "image/png", "image/gif"}

\* part_000:221
SupportedType(contentType) ==
    contentType \in {"image/jpeg", "image/jpg", "image/png"}

\* part_000:244
UploadDataURI(contentType, bytes) == <<"data:", contentType, ";base64,">> \o Base64(bytes)

\* part_000:390-449: extractTextFromImageBase64 of the image-oriented build
\* (no test of resp.StatusCode)
extractTextFromImageBase64Upload(resp) ==
    IF resp.transport = "error" THEN Fail("failed to make request", <<>>)
    ELSE IF resp.transport = "readerror" THEN Fail("failed to read response", <<>>)
    ELSE FirstChoice(resp)

DigitValue(ch) ==
    CASE ch = "0" -> 0 [] ch = "1" -> 1 [] ch = "2" -> 2 [] ch = "3" -> 3
      [] ch = "4" -> 4 [] ch = "5" -> 5 [] ch = "6" -> 6 [] ch = "7" -> 7
      [] ch = "8" -> 8 [] ch = "9" -> 9 [] OTHER -> -1

\* The leading decimal digits of str, as a number, after acc
RECURSIVE ScanDigits(_, _)
ScanDigits(str, acc) ==
    IF Len(str) = 0 \/ DigitValue(str[1]) < 0 THEN acc
    ELSE ScanDigits(Tail(str), acc * 10 + DigitValue(str[1]))

\* Mutant: a value without a leading digit is read as 0
SscanfLenient(str) == Ok(ScanDigits(str, 0))

\* part_000:268 fmt.Sscanf(chatIDStr, "%d", &chatID): the leading digits are
\* the value; no leading digit is an error
Sscanf(str) ==
    IF Len(str) = 0 \/ DigitValue(str[1]) < 0 THEN Fail("expected integer", 0)
    ELSE Ok(ScanDigits(str, 0))

\* part_000:281
UploadReply(name, text) ==
    <<"**Extracted data from image (", name, "):**", "\n\n", "~~~json", "\n">>
    \o text \o <<"\n", "~~~">>

\* part_000:210-241: take the file, test its type, open and read it
handleTestImage_Receive ==
    /\ pc = "listening"
    /\ "POST /test-image" \in routes
    /\ \E f \in Uploads :
         /\ upload' = <<f>>
         /\ IF ~f.present
            THEN /\ uploadResponse' = <<UploadError(400, <<"No image file uploaded">>)>>
                 /\ pc' = "test_done"
            ELSE IF ~SupportedType(f.content_type)
            THEN /\ uploadResponse' =
                      <<UploadError(400, <<"Only JPEG, JPG, and PNG images are supported">>)>>
                 /\ pc' = "test_done"
            ELSE IF f.open = "error"
            THEN /\ uploadResponse' = <<UploadError(500, <<"Failed to open uploaded file">>)>>
                 /\ pc' = "test_done"
            ELSE IF f.read = "error"
            THEN /\ uploadResponse' = <<UploadError(500, <<"Failed to read image content">>)>>
                 /\ pc' = "test_done"
            ELSE uploadResponse' = uploadResponse /\ pc' = "test_extract"
    /\ UNCHANGED <<routes, inv, chatIDStr, variant, env, telegramBotToken,
                   openAIAPIKey, port, update, largestPhoto, fileURL, pdfContent,
                   imageData, extractedText, calls, rendered, request, response>>

\* part_000:244-272: the completion call on the data URI, then the chat
\* identifier is read from the environment
handleTestImage_Extract ==
    /\ pc = "test_extract"
    /\ \E a \in OpenAIAnswers, c \in ChatIDStrs :
         LET f == upload[1]
             r == extractTextFromImageBase64Upload(a)
         IN
           /\ calls' = Append(calls,
                  Call("completions", 0,
                       OpenAIRequest(variant, "data",
                                     UploadDataURI(f.content_type, f.content),
                                     openAIAPIKey), a, r.err))
           /\ extractedText' = r.val
           /\ IF r.err # "nil"
              THEN /\ uploadResponse' =
                        <<UploadError(500, <<"Failed to extract text from image: ", r.err>>)>>
                   /\ chatIDStr' = chatIDStr
                   /\ pc' = "test_done"
              ELSE /\ chatIDStr' = c
                   /\ IF c = <<>>
                      THEN /\ uploadResponse' =
                                <<UploadSuccess(r.val, f.filename, Len(f.content), 0)>>
                           /\ pc' = "test_done"
                      ELSE IF Sscanf(c).err # "nil"
                      THEN /\ uploadResponse' =
                                <<UploadError(500, <<"Invalid TELEGRAM_CHAT_ID format">>)>>
                           /\ pc' = "test_done"
                      ELSE uploadResponse' = uploadResponse /\ pc' = "test_send_image"
    /\ UNCHANGED <<routes, inv, upload, variant, env, telegramBotToken,
                   openAIAPIKey, port, update, largestPhoto, fileURL, pdfContent,
                   imageData, rendered, request, response>>

\* part_000:275-278: the uploaded image is relayed; an error is only logged
handleTestImage_SendImage ==
    /\ pc = "test_send_image"
    /\ \E a \in SendAnswers :
         calls' = Append(calls,
             Call("sendPhoto", Sscanf(chatIDStr).val,
                  [photo |-> upload[1].content, caption |-> "Original Image"],
                  a, sendImageToTelegram(variant, a)))
    /\ pc' = "test_send_message"
    /\ UNCHANGED <<routes, testVars, inv, variant, env, telegramBotToken,
                   openAIAPIKey, port, update, largestPhoto, fileURL, pdfContent,
                   imageData, extractedText, rendered, request, response>>

\* part_000:281-295: the extracted data is relayed, an error is only logged,
\* and the success body is written
handleTestImage_SendMessage ==
    /\ pc = "test_send_message"
    /\ \E a \in SendAnswers :
         calls' = Append(calls,
             Call("sendMessage", Sscanf(chatIDStr).val,
                  UploadReply(upload[1].filename, extractedText),
                  a, sendTelegramMessage(variant, a)))
    /\ uploadResponse' =
          <<UploadSuccess(extractedText, upload[1].filename, Len(upload[1].content),
                          Sscanf(chatIDStr).val)>>
    /\ pc' = "test_done"
    /\ UNCHANGED <<routes, inv, upload, chatIDStr, variant, env, telegramBotToken,
                   openAIAPIKey, port, update, largestPhoto, fileURL, pdfContent,
                   imageData, extractedText, rendered, request, response>>

Next ==
    \/ main
    \/ handleTestImage_Receive
    \/ handleTestImage_Extract
    \/ handleTestImage_SendImage
    \/ handleTestImage_SendMessage
    \/ handleWebhook_Bind
    \/ Dispatch
    \/ ResolveImage
    \/ ExtractImage
    \/ ResolveDocument
    \/ DownloadContent
    \/ Rasterize
    \/ ExtractPDF
    \/ SendImage
    \/ Notify

Spec == Init /\ [][Next]_vars

\* A step of a started handleWebhook invocation
HandlerStep ==
    \/ Dispatch
    \/ ResolveImage
    \/ ExtractImage
    \/ ResolveDocument
    \/ DownloadContent
    \/ Rasterize
    \/ ExtractPDF
    \/ SendImage
    \/ Notify

\* Every external call returns and the goroutine of the handler keeps being
\* scheduled: a started invocation is never stopped for ever before its next
\* statement
FairSpec == Spec /\ WF_vars(HandlerStep)

----------------------------------------------------------------------------
(* Concurrent invocations: gin runs handleWebhook on one goroutine per      *)
(* request.  The locals of invocation i are inv[i]; the two globals are the *)
(* only state the invocations share.  Each step is one blocking call of one *)
(* invocation, as above; the answers are not kept, only what the functions  *)
(* returned.                                                                *)

\* The updates delivered to the concurrent invocations
ConcUpdates ==
    [chat_id : ChatIDs,
     photo : {<<>>, <<[file_id |-> "f1", file_size |-> 10]>>},
     document : {NoDocument,
                 [present |-> TRUE, mime_type |-> "application/pdf", file_id |-> "f1"]}]
ConcBodies ==
    {[syntax |-> "invalid", typed |-> FALSE, message |-> ZeroUpdate]}
    \cup [syntax : {"valid"}, typed : {TRUE}, message : ConcUpdates]


\* The answers given to the concurrent invocations: one failure and the
\* successes of each call
ConcGetFileAnswers ==
    {a \in GetFileAnswers : a.transport = "error" \/ a.body.file_path # ""}
ConcOpenAIAnswers ==
    {a \in OpenAIAnswers :
        \/ a.transport = "error"
        \/ a.transport = "ok" /\ a.status = 200 /\ Len(a.body.choices) = 1}
ConcFileAnswers ==
    {a \in FileAnswers : a.transport = "error" \/ (a.body.valid /\ a.body.pages = 1)}

\* One outbound call of an invocation: the endpoint, the chat it addresses,
\* what is sent, and what a completion returned
ConcCall(api, chat, arg, r) ==
    [api |-> api, chat_id |-> chat, arg |-> arg, val |-> r.val]

\* Mutant: the update is kept in a package-level variable, so the chat of
\* the first invocation is read by every invocation
NotifyChatShared(locals, i) == locals[1].update.chat_id

\* update.Message.Chat.ID of the invocation's own local update (main.go:172)
NotifyChat(locals, i) == locals[i].update.chat_id

\* Invocation i moves to the locals l; nothing else changes
InvocationStep(i, l) ==
    /\ pc = "listening"
    /\ "POST /webhook" \in routes
    /\ inv' = [inv EXCEPT ![i] = l]
    /\ UNCHANGED <<routes, testVars, variant, env, telegramBotToken, openAIAPIKey,
                   port, pc, update, largestPhoto, fileURL, pdfContent, imageData,
                   extractedText, calls, rendered, request, response>>

\* main.go:155-161
ConcBind ==
    \E i \in Invocations, body \in ConcBodies :
        LET r == ShouldBindJSON(variant, body) IN
          /\ inv[i].pc = "idle"
          /\ InvocationStep(i,
                IF r.err # "nil"
                THEN [inv[i] EXCEPT !.pc = "done", !.response = <<BadRequest>>]
                ELSE [inv[i] EXCEPT !.pc = "bound", !.update = r.val])

\* main.go:164-166, 194, 235-237
ConcDispatch ==
    \E i \in Invocations :
        LET l == inv[i]
            flow == FlowOf(variant, l.update)
            p == IF flow = "image" THEN SelectPhoto(l.update.photo) ELSE l.largestPhoto
        IN
          /\ l.pc = "bound"
          /\ InvocationStep(i,
                IF flow = "image" /\ ~RejectsEmptyHandle(variant, p)
                THEN [l EXCEPT !.pc = "resolve_image", !.largestPhoto = p]
                ELSE IF flow = "document"
                THEN [l EXCEPT !.pc = "resolve_document"]
                ELSE [l EXCEPT !.pc = "done", !.largestPhoto = p,
                               !.response = <<OKResponse>>])

\* main.go:169-175
ConcResolveImage ==
    \E i \in Invocations, a \in ConcGetFileAnswers :
        LET l == inv[i]
            r == downloadImage(telegramBotToken, l.largestPhoto.file_id, a)
        IN
          /\ l.pc = "resolve_image"
          /\ InvocationStep(i,
                [l EXCEPT !.pc = AfterResolveImage(r), !.fileURL = r.val,
                          !.calls = Append(@, ConcCall("getFile", 0,
                                                       l.largestPhoto.file_id, r))])

\* main.go:178-184
ConcExtractImage ==
    \E i \in Invocations, a \in ConcOpenAIAnswers :
        LET l == inv[i]
            r == extractTextFromImage(variant, a)
        IN
          /\ l.pc = "extract_image"
          /\ InvocationStep(i,
                [l EXCEPT !.pc = AfterExtractImage(r), !.extractedText = r.val,
                          !.calls = Append(@, ConcCall("completions", 0,
                              OpenAIRequest(variant, "url", l.fileURL, openAIAPIKey), r))])

\* main.go:196-202
ConcResolveDocument ==
    \E i \in Invocations, a \in ConcGetFileAnswers :
        LET l == inv[i]
            r == downloadDocument(telegramBotToken, l.update.document.file_id, a)
        IN
          /\ l.pc = "resolve_document"
          /\ InvocationStep(i,
                [l EXCEPT !.pc = (IF r.err # "nil" THEN "pdf_download_failed"
                                  ELSE "download_content"),
                          !.fileURL = r.val,
                          !.calls = Append(@, ConcCall("getFile", 0,
                                                       l.update.document.file_id, r))])

\* main.go:205-211
ConcDownloadContent ==
    \E i \in Invocations, a \in ConcFileAnswers :
        LET l == inv[i]
            r == downloadFileContent(a)
        IN
          /\ l.pc = "download_content"
          /\ InvocationStep(i,
                [l EXCEPT !.pc = (IF r.err # "nil" THEN "pdf_content_failed"
                                  ELSE "rasterize"),
                          !.pdfContent = r.val,
                          !.calls = Append(@, ConcCall("download", 0, l.fileURL,
                                                       [err |-> r.err, val |-> <<>>]))])

\* main.go:214 into 372-391
ConcRasterize ==
    \E i \in Invocations, o \in RenderOutcomes :
        LET l == inv[i]
            r == RasterizeFirstPage(l.pdfContent, o)
        IN
          /\ l.pc = "rasterize"
          /\ InvocationStep(i,
                [l EXCEPT !.pc = (IF r.err # "nil" THEN "pdf_extract_failed"
                                  ELSE "extract_pdf"),
                          !.imageData = r.val])

\* main.go:394-399 and 215-220
ConcExtractPDF ==
    \E i \in Invocations, a \in ConcOpenAIAnswers :
        LET l == inv[i]
            r == extractTextFromImageBase64(a)
        IN
          /\ l.pc = "extract_pdf"
          /\ InvocationStep(i,
                [l EXCEPT !.pc = (IF r.err # "nil" THEN "pdf_extract_failed"
                                  ELSE "send_image"),
                          !.extractedText = r.val,
                          !.calls = Append(@, ConcCall("completions", 0,
                              OpenAIRequest(variant, "data", DataURI(l.imageData),
                                            openAIAPIKey), r))])

\* main.go:223-226
ConcSendImage ==
    \E i \in Invocations, a \in SendAnswers :
        LET l == inv[i] IN
          /\ l.pc = "send_image"
          /\ InvocationStep(i,
                [l EXCEPT !.pc = AfterSendImage(sendImageToTelegram(variant, a)),
                          !.calls = Append(@, ConcCall("sendPhoto", NotifyChat(inv, i),
                              l.imageData,
                              [err |-> sendImageToTelegram(variant, a), val |-> <<>>]))])

\* sendTelegramMessage at one of its call sites, then c.JSON(200, ...)
ConcNotify ==
    \E i \in Invocations, a \in SendAnswers :
        LET l == inv[i]
            ret == sendTelegramMessage(variant, a)
        IN
          /\ l.pc \in NotifySites
          /\ InvocationStep(i,
                [l EXCEPT !.pc = AfterNotify(l.pc),
                          !.response = Append(@, ResponseAfterNotify(l.pc, ret)),
                          !.calls = Append(@, ConcCall("sendMessage", NotifyChat(inv, i),
                              NotifyText(l.pc, variant, l.extractedText),
                              [err |-> ret, val |-> <<>>]))])

NextConc ==
    \/ main
    \/ ConcBind
    \/ ConcDispatch
    \/ ConcResolveImage
    \/ ConcExtractImage
    \/ ConcResolveDocument
    \/ ConcDownloadContent
    \/ ConcRasterize
    \/ ConcExtractPDF
    \/ ConcSendImage
    \/ ConcNotify

SpecConc == Init /\ [][NextConc]_vars

----------------------------------------------------------------------------
(* Vocabulary of the properties *)

APIs == {"getFile", "download", "completions", "sendMessage", "sendPhoto"}

CallsOf(cs, api) == SelectSeq(cs, LAMBDA c : c.api = api)
Count(cs, api) == Len(CallsOf(cs, api))

Received == request # <<>>
\* The body is JSON text / decodes into the update structure
WellFormed == Received /\ request[1].syntax = "valid"
Parsed == WellFormed /\ request[1].typed
Inbound == request[1].message

Finished == pc = "done"

IsPrefix(p, t) == Len(p) <= Len(t) /\ SubSeq(t, 1, Len(p)) = p

\* The flow the inbound update asks for
ImageFlow == Parsed /\ Len(Inbound.photo) > 0
DocumentFlow ==
    /\ Parsed /\ Len(Inbound.photo) = 0 /\ variant = "pdf"
    /\ Inbound.document.present /\ Inbound.document.mime_type = "application/pdf"

\* The file-metadata answer is a failure: transport or read error, a body
\* that does not parse, or a false success flag
ResolutionFailed(a) ==
    a.transport # "ok" \/ a.body.json = "invalid" \/ ~a.body.ok

\* Some step of the invocation failed: a call returned an error, or the
\* downloaded document did not reach the extractor (rasterization failed)
StepFailed ==
    \/ \E i \in 1..Len(calls) : calls[i].ret # "nil"
    \/ Count(calls, "download") = 1 /\ CallsOf(calls, "download")[1].ret = "nil"
       /\ Count(calls, "completions") = 0

----------------------------------------------------------------------------
(* C1: every inbound body that parses into an update is answered with      *)
(* 200 {"status":"ok"}, whatever resolution, download, rasterization,      *)
(* extraction or notification did; no error response is ever written.      *)
C1_AckWhateverTheOutcome ==
    Parsed => /\ response \in {<<>>, <<OKResponse>>}
              /\ Finished => response = <<OKResponse>>

\* a finished PDF update whose extraction and whose notification both failed
C1_Witness ==
    /\ Finished /\ DocumentFlow /\ response = <<OKResponse>>
    /\ Count(calls, "completions") = 1
    /\ CallsOf(calls, "completions")[1].ret # "nil"
    /\ Count(calls, "sendMessage") = 1
    /\ CallsOf(calls, "sendMessage")[1].ret # "nil"

(* C2: a malformed JSON body is answered with 400, never with the success  *)
(* acknowledgment, and no outbound call is made for it.                    *)
C2_MalformedIsRejected ==
    (Received /\ request[1].syntax = "invalid") =>
        /\ response = <<BadRequest>>
        /\ Finished
        /\ calls = <<>>
        /\ rendered = <<>>

C2_Witness == Received /\ request[1].syntax = "invalid" /\ Finished

(* C3 as stated: every well-formed body, whatever the values of its        *)
(* fields, is answered with the success acknowledgment; 400 is produced    *)
(* only for malformed JSON.                                                *)
C3_WellFormedIsAcknowledged ==
    (WellFormed /\ Finished) => response = <<OKResponse>>

(* C3 amended: a body is answered with the success acknowledgment exactly  *)
(* when it is well-formed JSON whose fields have the types the update      *)
(* structure declares; malformed JSON and well-formed JSON with a field of *)
(* another type are both answered with 400.                                *)
C3_BindDecidesTheResponse ==
    Finished =>
        /\ Parsed => response = <<OKResponse>>
        /\ ~Parsed => response = <<BadRequest>>
        /\ Len(response) = 1

\* a well-formed body with a mistyped field was answered
C3_Witness ==
    Finished /\ WellFormed /\ ~request[1].typed /\ response = <<BadRequest>>

(* C4: an update with an empty image list and no document, or a document   *)
(* whose MIME type is not application/pdf, is acknowledged with no         *)
(* outbound call at all.                                                   *)
C4_NotActionableIsNoOp ==
    (/\ Parsed /\ Len(Inbound.photo) = 0
     /\ (~Inbound.document.present
         \/ Inbound.document.mime_type # "application/pdf")) =>
        /\ calls = <<>>
        /\ rendered = <<>>
        /\ pc \in {"bound", "done"}
        /\ Finished => response = <<OKResponse>>

\* an application/zip document was acknowledged by the build that has a
\* document branch
C4_Witness ==
    /\ Finished /\ Parsed /\ variant = "pdf" /\ Len(Inbound.photo) = 0
    /\ Inbound.document.present
    /\ Inbound.document.mime_type = "application/zip"
    /\ response = <<OKResponse>>

(* C5: with two or more image variants, the handle given to the file       *)
(* resolver is that of the last variant in list position, and no other     *)
(* handle is resolved; the size metadata plays no part.                    *)
C5_LastVariantIsResolved ==
    (Parsed /\ Len(Inbound.photo) >= 2) =>
        \A i \in 1..Len(calls) :
            calls[i].api = "getFile" =>
                calls[i].arg = Inbound.photo[Len(Inbound.photo)].file_id

\* the last variant was resolved although the first one is the larger file
C5_Witness ==
    /\ Parsed /\ Len(Inbound.photo) = 2
    /\ Inbound.photo[1].file_size > Inbound.photo[2].file_size
    /\ Inbound.photo[1].file_id # Inbound.photo[2].file_id
    /\ Count(calls, "getFile") = 1
    /\ CallsOf(calls, "getFile")[1].arg = Inbound.photo[2].file_id

(* C6: in the image flow, a failed file resolution is followed by exactly  *)
(* one notification, carrying the download-failure text; the extractor is  *)
(* not called and the response is the success acknowledgment.              *)
C6_ResolutionFailureIsNotified ==
    (/\ ImageFlow /\ Count(calls, "getFile") = 1
     /\ ResolutionFailed(CallsOf(calls, "getFile")[1].answer)) =>
        /\ Count(calls, "completions") = 0
        /\ Count(calls, "sendMessage") <= 1
        /\ Finished =>
            /\ Count(calls, "sendMessage") = 1
            /\ CallsOf(calls, "sendMessage")[1].arg =
                   <<"Sorry, I couldn't download the image. Please try again.">>
            /\ CallsOf(calls, "sendMessage")[1].chat_id = Inbound.chat_id
            /\ response = <<OKResponse>>

\* the platform answered ok=false and the request is finished
C6_Witness ==
    /\ Finished /\ ImageFlow /\ Count(calls, "getFile") = 1
    /\ CallsOf(calls, "getFile")[1].answer.transport = "ok"
    /\ CallsOf(calls, "getFile")[1].answer.body.json = "valid"
    /\ ~CallsOf(calls, "getFile")[1].answer.body.ok
    /\ Count(calls, "sendMessage") = 1

(* C7: in the image flow, a completion answer with a non-success HTTP      *)
(* status, whatever its body, is followed by exactly one notification,     *)
(* carrying the extraction-failure text; no success-labelled message is    *)
(* sent.                                                                   *)
C7_ProviderStatusIsAFailure ==
    (/\ Finished /\ ImageFlow /\ Count(calls, "completions") = 1
     /\ CallsOf(calls, "completions")[1].answer.transport = "ok"
     /\ CallsOf(calls, "completions")[1].answer.status # 200) =>
        /\ Count(calls, "sendMessage") = 1
        /\ CallsOf(calls, "sendMessage")[1].arg =
               <<"Sorry, I couldn't extract any text from this image. Please try with a clearer image.">>
        /\ response = <<OKResponse>>

----------------------------------------------------------------------------
(* The fixed label of a success reply, by build and flow *)
ReplyLabel ==
    IF ImageFlow
    THEN IF variant = "pdf"
         THEN <<"**Extracted text from image:**", "\n\n">>
         ELSE <<"**Extracted data from image:**", "\n\n", "~~~json", "\n">>
    ELSE <<"**Extracted text from PDF:**", "\n\n">>

\* The extractor returned without error
ExtractionSucceeded ==
    Count(calls, "completions") = 1 /\ CallsOf(calls, "completions")[1].ret = "nil"

\* What the extractor returned: the first choice of the provider's answer
ExtractedContent == CallsOf(calls, "completions")[1].answer.body.choices[1]

(* C8: after a successful extraction exactly one text notification is      *)
(* sent, and its text is the fixed label followed by the extracted content *)
(* verbatim.                                                               *)
C8_SuccessReplyCarriesContent ==
    ExtractionSucceeded =>
        /\ Count(calls, "sendMessage") <= 1
        /\ Finished =>
            /\ Count(calls, "sendMessage") = 1
            /\ IsPrefix(ReplyLabel \o ExtractedContent,
                        CallsOf(calls, "sendMessage")[1].arg)
            /\ CallsOf(calls, "sendMessage")[1].chat_id = Inbound.chat_id

\* the three-token content was relayed by the image-oriented build, out of
\* an answer that holds a second choice
C8_Witness ==
    /\ Finished /\ ExtractionSucceeded /\ variant = "image"
    /\ ExtractedContent = <<"A", "B", "C">>
    /\ Len(CallsOf(calls, "completions")[1].answer.body.choices) = 2
    /\ Count(calls, "sendMessage") = 1

(* C9: one invocation makes at most one text-notification call and at most *)
(* one image-send call, and on every path on which a step failed exactly   *)
(* one text notification is attempted.                                     *)
C9_AtMostOneNotification ==
    /\ Count(calls, "sendMessage") <= 1
    /\ Count(calls, "sendPhoto") <= 1
    /\ (Finished /\ Parsed /\ StepFailed) => Count(calls, "sendMessage") = 1

\* rasterization failed on a downloaded document and one text was sent
C9_Witness ==
    /\ Finished /\ DocumentFlow
    /\ Count(calls, "download") = 1 /\ CallsOf(calls, "download")[1].ret = "nil"
    /\ Count(calls, "completions") = 0
    /\ Count(calls, "sendMessage") = 1
    /\ Count(calls, "sendPhoto") = 0

(* C10: within one invocation each external call (getFile, file download,  *)
(* completion, sendMessage, sendPhoto) is issued at most once: once a call *)
(* of a kind has been issued, failed or not, no step issues it again.      *)
C10_NoRetry ==
    [][\A api \in APIs :
          /\ Count(calls', api) <= 1
          /\ Count(calls, api) = 1 => Count(calls', api) = 1]_vars

\* a failed completion call of a finished invocation
C10_Witness ==
    /\ Finished /\ Count(calls, "completions") = 1
    /\ CallsOf(calls, "completions")[1].ret # "nil"
    /\ Count(calls, "getFile") = 1

----------------------------------------------------------------------------
\* The position of handleWebhook is inside the document branch
InDocumentBranch ==
    pc \in {"resolve_document", "download_content", "rasterize", "extract_pdf",
            "send_image", "pdf_download_failed", "pdf_content_failed",
            "pdf_extract_failed", "pdf_reply"}

(* C11: when an update carries both a non-empty image list and a PDF       *)
(* document, only the image flow runs: the one handle resolved is the last *)
(* image variant's, and the document is never resolved, downloaded or      *)
(* rasterized, whether the image flow succeeds or fails.                   *)
C11_PhotoTakesPrecedence ==
    (/\ Parsed /\ Len(Inbound.photo) > 0
     /\ Inbound.document.present
     /\ Inbound.document.mime_type = "application/pdf") =>
        /\ ~InDocumentBranch
        /\ Count(calls, "download") = 0
        /\ Count(calls, "sendPhoto") = 0
        /\ rendered = <<>>
        /\ \A i \in 1..Len(calls) :
              /\ calls[i].api = "getFile" =>
                    calls[i].arg = Inbound.photo[Len(Inbound.photo)].file_id
              /\ calls[i].api = "completions" => calls[i].arg.prompt # "free-text-summary"

\* the rasterizing build finished the image flow of an update that also
\* carries a PDF with another handle, the extraction having failed
C11_Witness ==
    /\ Finished /\ Parsed /\ variant = "pdf"
    /\ Len(Inbound.photo) = 1 /\ Inbound.photo[1].file_id = "f2"
    /\ Inbound.document.present
    /\ Inbound.document.mime_type = "application/pdf"
    /\ Inbound.document.file_id = "f1"
    /\ Count(calls, "getFile") = 1
    /\ Count(calls, "completions") = 1
    /\ CallsOf(calls, "completions")[1].ret # "nil"

(* C12: for a PDF document whose resolution and download succeeded, the    *)
(* rasterizer is invoked at most once and only on page index 0, whatever   *)
(* the page count, and the extractor is called at most once, with the      *)
(* data:image/png;base64 URI of that page.                                 *)
C12_FirstPageOnly ==
    (/\ DocumentFlow /\ Count(calls, "download") = 1
     /\ CallsOf(calls, "download")[1].ret = "nil") =>
        /\ Len(rendered) <= 1
        /\ \A i \in 1..Len(rendered) : rendered[i] = 0
        /\ Count(calls, "completions") <= 1
        /\ \A i \in 1..Len(calls) :
              calls[i].api = "completions" =>
                 \* base64 of the two bytes 137, 80 of page 0's PNG: "iVA="
                 /\ calls[i].arg.image_url = <<"data:image/png;base64,", 34, 21, 0, 64>>
                 /\ rendered = <<0>>

\* a document of more than one page went through the extractor
C12_Witness ==
    /\ DocumentFlow /\ Count(calls, "download") = 1
    /\ CallsOf(calls, "download")[1].answer.body.pages >= 2
    /\ Count(calls, "completions") = 1
    /\ rendered = <<0>>

----------------------------------------------------------------------------
\* The step of the invocation that failed before any notification, if any
FailedStage ==
    IF Count(calls, "getFile") = 1 /\ CallsOf(calls, "getFile")[1].ret # "nil"
    THEN "resolve"
    ELSE IF Count(calls, "download") = 1 /\ CallsOf(calls, "download")[1].ret # "nil"
    THEN "download"
    ELSE IF Count(calls, "completions") = 1
            /\ CallsOf(calls, "completions")[1].ret # "nil"
    THEN "extract"
    ELSE IF Count(calls, "download") = 1 /\ Count(calls, "completions") = 0
            /\ pc \in {"pdf_extract_failed", "done"}
    THEN "rasterize"
    ELSE "none"

SentText == CallsOf(calls, "sendMessage")[1].arg

(* C13 as stated: in the document flow a failure at any step is notified   *)
(* with one fixed text, the same whichever step failed, and acknowledged.  *)
(* (Stated with the text of the rasterization and extraction steps; the    *)
(* other two literals of the flow are refuted the same way.)               *)
C13_OneDocumentFailureText ==
    (Finished /\ DocumentFlow /\ FailedStage # "none") =>
        /\ Count(calls, "sendMessage") = 1
        /\ SentText =
             <<"Sorry, I couldn't extract any text from this PDF. Please try with a different document.">>
        /\ response = <<OKResponse>>

(* C13 amended: in the document flow a failure at any step is notified     *)
(* with one of three fixed texts chosen by the stage that failed (file     *)
(* resolution; raw-byte download; open, empty document, render, encode or  *)
(* extraction) and acknowledged.                                           *)
C13_DocumentFailureTextByStage ==
    (Finished /\ DocumentFlow /\ FailedStage # "none") =>
        /\ Count(calls, "sendMessage") = 1
        /\ SentText =
             (IF FailedStage = "resolve"
              THEN <<"Sorry, I couldn't download the PDF. Please try again.">>
              ELSE IF FailedStage = "download"
              THEN <<"Sorry, I couldn't download the PDF content. Please try again.">>
              ELSE <<"Sorry, I couldn't extract any text from this PDF. Please try with a different document.">>)
        /\ response = <<OKResponse>>

\* the raw-byte download failed and the request is finished
C13_Witness ==
    /\ Finished /\ DocumentFlow /\ FailedStage = "download"
    /\ Count(calls, "sendMessage") = 1

----------------------------------------------------------------------------
\* The fixed failure texts, by flow and failed stage
FailureTextOf(imageFlow, stage) ==
    IF imageFlow
    THEN IF stage = "resolve"
         THEN <<"Sorry, I couldn't download the image. Please try again.">>
         ELSE <<"Sorry, I couldn't extract any text from this image. Please try with a clearer image.">>
    ELSE IF stage = "resolve"
         THEN <<"Sorry, I couldn't download the PDF. Please try again.">>
         ELSE IF stage = "download"
         THEN <<"Sorry, I couldn't download the PDF content. Please try again.">>
         ELSE <<"Sorry, I couldn't extract any text from this PDF. Please try with a different document.">>

\* Every error detail a function of the program can return
ErrorDetails ==
    {calls[i].ret : i \in 1..Len(calls)} \ {"nil"}

(* C14: on every failure path the text sent to the user is a fixed literal *)
(* determined by the flow and the step that failed alone: whatever the     *)
(* transport error, status code or response body behind the failure, the   *)
(* text is the same, and no error detail is part of it.                    *)
C14_FailureTextIgnoresDetail ==
    (Finished /\ Parsed /\ FailedStage # "none") =>
        /\ Count(calls, "sendMessage") = 1
        /\ SentText = FailureTextOf(ImageFlow, FailedStage)
        /\ \A k \in 1..Len(SentText) : SentText[k] \notin ErrorDetails

\* an extraction that failed for want of choices, after one that could have
\* failed on the status or the transport
C14_Witness ==
    /\ Finished /\ ImageFlow /\ FailedStage = "extract"
    /\ CallsOf(calls, "completions")[1].ret = "no response from OpenAI"
    /\ Count(calls, "sendMessage") = 1

----------------------------------------------------------------------------
\* The platform did not accept a send call: transport error or non-success
\* status
SendFailed(c) == c.answer.transport # "ok" \/ c.answer.status # 200

(* C16: a failed notification call (transport error or non-success         *)
(* status), also one that reports a prior failure, leaves the response to  *)
(* the webhook caller the success acknowledgment, is not followed by a     *)
(* second notification attempt and does not abort the invocation; a failed *)
(* image send is still followed by the text reply.                         *)
C16_NotifyFailureIsSwallowed ==
    /\ (/\ Received /\ Count(calls, "sendMessage") >= 1
        /\ SendFailed(CallsOf(calls, "sendMessage")[1])) =>
          /\ Count(calls, "sendMessage") = 1
          /\ Finished
          /\ response = <<OKResponse>>
    /\ (/\ Received /\ Count(calls, "sendPhoto") >= 1
        /\ SendFailed(CallsOf(calls, "sendPhoto")[1])) =>
          /\ pc \in {"pdf_reply", "done"}
          /\ Finished => (Count(calls, "sendMessage") = 1 /\ response = <<OKResponse>>)

\* the notification of an extraction failure was itself refused by the
\* transport
C16_Witness ==
    /\ Finished /\ FailedStage = "extract"
    /\ Count(calls, "sendMessage") = 1
    /\ CallsOf(calls, "sendMessage")[1].answer.transport = "error"
    /\ response = <<OKResponse>>

----------------------------------------------------------------------------
\* An actionable update on which every step succeeded
AllStepsSucceeded ==
    /\ Finished /\ (ImageFlow \/ DocumentFlow)
    /\ ExtractionSucceeded
    /\ \A i \in 1..Len(calls) :
          /\ calls[i].ret = "nil"
          /\ calls[i].api \in {"sendMessage", "sendPhoto"} => ~SendFailed(calls[i])

----------------------------------------------------------------------------
(* Vocabulary of the /test-image endpoint *)

Uploaded == upload # <<>>
UploadFinished == pc = "test_done"
TheUpload == upload[1]
UploadAnswer == uploadResponse[1]

\* The request itself is unacceptable: no file, or a type off the allow-list
UploadRejected ==
    ~TheUpload.present
    \/ TheUpload.content_type \notin {"image/jpeg", "image/jpg", "image/png"}

UploadExtractionSucceeded ==
    Uploaded /\ Count(calls, "completions") = 1
    /\ CallsOf(calls, "completions")[1].ret = "nil"

\* TELEGRAM_CHAT_ID is set but does not start with a digit
ChatIDUnreadable ==
    chatIDStr # <<>> /\ chatIDStr[1] \notin {"0", "1", "2", "3", "4", "5", "6", "7", "8", "9"}

----------------------------------------------------------------------------
\* Nothing has been received or sent
NothingHandled ==
    /\ request = <<>> /\ upload = <<>> /\ calls = <<>>
    /\ response = <<>> /\ uploadResponse = <<>>
    /\ \A i \in Invocations : inv[i].pc = "idle"

(* C19: when the bot credential or the AI provider key is absent or empty  *)
(* the process exits at start-up: no route is registered and no request is *)
(* handled; when both are present the routes are registered and the server *)
(* listens on the configured port, or on 8080 when none is configured.     *)
C19_FailFast ==
    /\ pc = "start" => (routes = {} /\ NothingHandled)
    /\ (pc # "start" /\ (env.TELEGRAM_BOT_TOKEN = "" \/ env.OPENAI_API_KEY = "")) =>
          /\ pc = "fatal"
          /\ routes = {}
          /\ NothingHandled
    /\ (pc # "start" /\ env.TELEGRAM_BOT_TOKEN # "" /\ env.OPENAI_API_KEY # "") =>
          /\ pc # "fatal"
          /\ "POST /webhook" \in routes
          /\ port = (IF env.PORT = "" THEN "8080" ELSE env.PORT)

\* the process exited although the bot credential is set: the key is missing
C19_Witness ==
    /\ pc = "fatal" /\ env.TELEGRAM_BOT_TOKEN = "tok" /\ env.OPENAI_API_KEY = ""

----------------------------------------------------------------------------
\* The fixed texts of the dispatcher
FailureTexts ==
    {FailureTextOf(f, st) : f \in BOOLEAN, st \in {"resolve", "download", "extract"}}
ReplyLabels ==
    {<<"**Extracted text from image:**", "\n\n">>,
     <<"**Extracted data from image:**", "\n\n", "~~~json", "\n">>,
     <<"**Extracted text from PDF:**", "\n\n">>}

\* What the completion call of the locals l returned
OwnExtraction(l) ==
    LET k == CHOOSE k \in 1..Len(l.calls) : l.calls[k].api = "completions"
    IN l.calls[k].val

\* The calls and the response of the locals l are those of its own update
OwnOutcome(l) ==
    /\ \A api \in APIs : Count(l.calls, api) <= 1
    /\ \A k \in 1..Len(l.calls) :
          /\ l.calls[k].api \in {"sendMessage", "sendPhoto"} =>
                l.calls[k].chat_id = l.update.chat_id
          /\ l.calls[k].api = "sendMessage" =>
                \/ l.calls[k].arg \in FailureTexts
                \/ /\ Count(l.calls, "completions") = 1
                   /\ \E label \in ReplyLabels :
                         IsPrefix(label \o OwnExtraction(l), l.calls[k].arg)
    /\ l.pc = "done" =>
          \/ l.response = <<OKResponse>>
          \/ l.response = <<BadRequest>> /\ l.calls = <<>>

(* C20: when handleWebhook runs concurrently for distinct updates, under   *)
(* every interleaving each invocation's notifications go to the chat of    *)
(* its own update with a text derived from its own extraction result, its  *)
(* calls and response are those of its own update, a step of one           *)
(* invocation changes no other invocation's locals, and the bot credential *)
(* and the API key are never written after start-up.                       *)
C20_InvocationsAreIsolated ==
    /\ [](\A i \in Invocations : OwnOutcome(inv[i]))
    /\ [][/\ \A i, j \in Invocations :
               (i # j /\ inv[i]' # inv[i]) => inv[j]' = inv[j]
          /\ pc # "start" =>
               (telegramBotToken' = telegramBotToken /\ openAIAPIKey' = openAIAPIKey)]_vars

\* invocation 2 has notified its chat while invocation 1, bound to another
\* chat, is between its resolution and its extraction
C20_Witness ==
    /\ inv[1].pc = "extract_image" /\ inv[2].pc = "done"
    /\ inv[1].update.chat_id # inv[2].update.chat_id
    /\ Count(inv[2].calls, "sendMessage") = 1
    /\ Count(inv[2].calls, "completions") = 1
    /\ Count(inv[1].calls, "getFile") = 1

----------------------------------------------------------------------------
\* The provider's answer a is one the extractors must refuse: transport
\* failure, non-success status, undecodable body, or no choice
MustBeRefused(a) ==
    \/ a.transport # "ok"
    \/ a.status # 200
    \/ a.body.json = "invalid"
    \/ Len(a.body.choices) = 0

(* C21: in both builds, every completion call, by URL or by data URI,      *)
(* returns an error exactly when the transport fails, the HTTP status is   *)
(* not success, the body does not decode or it has no choice; otherwise it *)
(* returns the content of the first choice unchanged.                      *)
C21_ExtractorErrorCases ==
    \A k \in 1..Len(calls) :
        calls[k].api = "completions" =>
            /\ (calls[k].ret # "nil") <=> MustBeRefused(calls[k].answer)
            /\ (k = Len(calls) /\ calls[k].ret = "nil") =>
                   extractedText = calls[k].answer.body.choices[1]

----------------------------------------------------------------------------
(* C22: in both builds, every sendMessage and every sendPhoto call returns *)
(* nil exactly when the platform answered with a success status, and an    *)
(* error when the transport failed or the status is not success.           *)
C22_NotifierErrorCases ==
    \A k \in 1..Len(calls) :
        calls[k].api \in {"sendMessage", "sendPhoto"} =>
            ((calls[k].ret = "nil") <=>
                (calls[k].answer.transport = "ok" /\ calls[k].answer.status = 200))

----------------------------------------------------------------------------
\* What the other resolver function returns for the same handle and answer
OtherResolver(fileID, a) ==
    IF ImageFlow THEN downloadDocument(telegramBotToken, fileID, a)
    ELSE downloadImage(telegramBotToken, fileID, a)

(* C23: a getFile call returns an error exactly when the HTTP call fails,  *)
(* the body does not parse or the success flag is false; otherwise it      *)
(* returns the download URL made of the fixed pattern, the bot credential  *)
(* and the returned relative path; downloadImage and downloadDocument      *)
(* return the same for the same file handle and answer.                    *)
C23_ResolverContract ==
    \A k \in 1..Len(calls) :
        calls[k].api = "getFile" =>
            LET a == calls[k].answer IN
              /\ (calls[k].ret # "nil") <=>
                     (a.transport # "ok" \/ a.body.json = "invalid" \/ ~a.body.ok)
              /\ k = Len(calls) =>
                   /\ calls[k].ret = "nil" =>
                          fileURL = <<"https://api.telegram.org/file/bot",
                                      telegramBotToken, "/", a.body.file_path>>
                   /\ [err |-> calls[k].ret, val |-> fileURL] =
                          OtherResolver(calls[k].arg, a)

\* downloadDocument has just returned the URL of a document
C23_Witness ==
    /\ pc = "download_content"
    /\ Len(calls) = 1 /\ calls[1].api = "getFile" /\ calls[1].ret = "nil"
    /\ calls[1].answer.body.file_path = "photos/file_1.jpg"
    /\ fileURL = <<"https://api.telegram.org/file/bot", "tok", "/", "photos/file_1.jpg">>

----------------------------------------------------------------------------
\* Call k of the log has an earlier call to api that returned without error
Preceded(k, api) ==
    \E j \in 1..(k - 1) : calls[j].api = api /\ calls[j].ret = "nil"

\* The labels of the success replies
SuccessLabels ==
    {<<"**Extracted text from image:**", "\n\n">>,
     <<"**Extracted data from image:**", "\n\n", "~~~json", "\n">>,
     <<"**Extracted text from PDF:**", "\n\n">>}
SuccessLabelled(text) == \E label \in SuccessLabels : IsPrefix(label, text)

\* The position of each kind of call in the order of the handler
StepRank(api) ==
    CASE api = "getFile" -> 1 [] api = "download" -> 2 [] api = "completions" -> 3
      [] api = "sendPhoto" -> 4 [] api = "sendMessage" -> 5

(* C24: within one webhook invocation the completion call is made only     *)
(* after the file resolution returned without error (and, for a document,  *)
(* after the download returned without error and the page was rendered and *)
(* encoded); a success-labelled message is sent only after the completion  *)
(* call returned without error; the calls follow the order resolution,     *)
(* download, extraction, image send, message; and a step of the handler    *)
(* makes at most one call, which has returned when the step ends.          *)
C24_StepsAreGated ==
    /\ [](Received =>
            \A k \in 1..Len(calls) :
              /\ calls[k].api = "completions" =>
                    /\ Preceded(k, "getFile")
                    /\ DocumentFlow =>
                          /\ Preceded(k, "download")
                          /\ pdfContent.valid /\ pdfContent.pages > 0
                          /\ imageData # <<>>
                          /\ calls[k].arg.image_url =
                                 <<"data:image/png;base64,">> \o Base64(imageData)
              /\ (calls[k].api = "sendMessage" /\ SuccessLabelled(calls[k].arg)) =>
                    Preceded(k, "completions")
              /\ \A j \in 1..(k - 1) : StepRank(calls[j].api) < StepRank(calls[k].api))
    /\ [][Received' =>
            \/ calls' = calls
            \/ /\ Len(calls') = Len(calls) + 1
               /\ SubSeq(calls', 1, Len(calls)) = calls]_vars

\* a document went through resolution, download, rasterization, extraction,
\* image send and reply, in this order
C24_Witness ==
    /\ Finished /\ DocumentFlow /\ Len(calls) = 5
    /\ calls[1].api = "getFile" /\ calls[2].api = "download"
    /\ calls[3].api = "completions" /\ calls[3].ret = "nil"
    /\ calls[4].api = "sendPhoto" /\ calls[5].api = "sendMessage"
    /\ SuccessLabelled(calls[5].arg)

----------------------------------------------------------------------------
\* The webhook invocation has written its response and returned
Completed == Finished /\ Len(response) = 1

(* C25: when every external call returns, every started webhook invocation *)
(* eventually completes with exactly one HTTP response written; no more    *)
(* than one response is ever written, and no outbound call is made once    *)
(* the response is written.                                                *)
C25_InvocationCompletes ==
    /\ Received ~> Completed
    /\ [](Received => (Len(response) <= 1 /\ (Len(response) = 1 <=> Finished)))
    /\ [][(Received /\ response # <<>>) => (calls' = calls /\ response' = response)]_vars

\* an invocation that made calls has completed with its one response
C25_Witness ==
    /\ Completed /\ Received /\ Len(calls) >= 3
    /\ calls[Len(calls)].api = "sendMessage"

----------------------------------------------------------------------------
(* C26: in the document flow of the rasterizing build, after a successful  *)
(* extraction the page image is sent first and the extracted text second;  *)
(* whether the image send returned an error or not, the text message is    *)
(* attempted exactly once and the response is the success acknowledgment.  *)
C26_TextFollowsImageSend ==
    (Finished /\ DocumentFlow /\ ExtractionSucceeded) =>
        /\ Count(calls, "sendPhoto") = 1
        /\ Count(calls, "sendMessage") = 1
        /\ calls[Len(calls) - 1].api = "sendPhoto"
        /\ calls[Len(calls)].api = "sendMessage"
        /\ calls[Len(calls)].arg =
               <<"**Extracted text from PDF:**", "\n\n">> \o extractedText
        /\ response = <<OKResponse>>

\* the image send failed and the extracted text was sent all the same
C26_Witness ==
    /\ Finished /\ DocumentFlow /\ ExtractionSucceeded
    /\ CallsOf(calls, "sendPhoto")[1].ret # "nil"
    /\ CallsOf(calls, "sendMessage")[1].arg =
           <<"**Extracted text from PDF:**", "\n\n", "A", "B", "C">>

----------------------------------------------------------------------------
\* The last photo of the inbound update has an empty file handle
LastHandleEmpty ==
    /\ Parsed /\ Len(Inbound.photo) > 0
    /\ Inbound.photo[Len(Inbound.photo)].file_id = ""

(* C27: in the image-oriented build, when the last photo of the update has *)
(* an empty file handle, the handler makes no outbound call at all (no     *)
(* resolution, no extraction, no notification) and answers with the        *)
(* success acknowledgment, although the photo list is not empty.           *)
C27_EmptyHandleIsSilent ==
    (variant = "image" /\ LastHandleEmpty) =>
        /\ calls = <<>>
        /\ pc \in {"bound", "done"}
        /\ Finished => response = <<OKResponse>>

\* two photos, the first with a handle and the last without: acknowledged
\* with no call
C27_Witness ==
    /\ variant = "image" /\ LastHandleEmpty /\ Finished
    /\ Len(Inbound.photo) = 2 /\ Inbound.photo[1].file_id # ""
    /\ calls = <<>> /\ response = <<OKResponse>>

====
